---- MODULE Spec2Model ----
(***************************************************************************)
(* A model of xorkevin/kerrors: errors with a message, a kind, a cause and  *)
(* a stack trace captured once per cause chain; the chain search Find; and  *)
(* the structured (JSON) rendering.                                         *)
(*                                                                          *)
(* Go error values are pointers to immutable structs.  The model keeps     *)
(* them in a heap: a sequence of node records, a pointer is an index into   *)
(* it and Nil (0) is the nil error.  A node only ever refers to nodes that  *)
(* were allocated before it, so every chain is finite and acyclic.          *)
(***************************************************************************)
EXTENDS Integers, Sequences, FiniteSets, TLC

VARIABLES heap, last, phase

vars == <<heap, last, phase>>

\* ------------------------------------------------------------------ bounds

\* The number of error values one behaviour of Spec allocates.
MaxNodes == 4

\* The number of error values one behaviour of FindSpec allocates.
MaxFindNodes == 4

\* The number of error values one behaviour of IsSpec allocates.
MaxIsNodes == 5

\* The depth of the caller's call stack above the library entry point.
CallDepth == 2

\* The deepest call stack of the calling code in CaptureSpec.
MaxDepth == 131

\* The largest skip handed to one NewStackTrace, AddStackTrace or OptSkip in
\* CaptureSpec.
MaxSkip == 1

\* ------------------------------------------------------------ constants

\* The nil error.
Nil == 0

\* The value a testAsError.As hook stores into its target: a testBaseError
\* that is not a node of the chain (*k = &testBaseError{}).
FreshBase == -1

\* The capacity of StackTrace.pc.
PCCap == 128

\* Messages handed to OptMsg.
Msgs == {"msg A"}

\* OptSkip values.
Skips == {0}

\* The dynamic types of the error values in a chain: the leaf errors of the
\* calling code (errors.New, &testBaseError{}, &testAsError{}), its wrappers
\* (testSingleUnwrapError, and asUnwrapError: a type of the calling code that
\* has both testAsError's As hook and testSingleUnwrapError's Unwrap), and the
\* library's *Error and *StackTrace.
LeafTypes == {"errorString", "testBaseError"}

WrapperTypes == {"testAsError", "testSingleUnwrapError", "asUnwrapError"}

Types == LeafTypes \cup WrapperTypes \cup {"Error", "StackTrace"}

\* Target shapes of Find: the concrete types and the StackStringer interface.
Shapes == Types \cup {"StackStringer"}

\* --------------------------------------------------------------- the heap

\* One error value.  message: Error.message, or the text of an error of the
\* calling code; kind: Error.wrapped[0]; cause: Error.wrapped[1],
\* StackTrace.wrapped or testSingleUnwrapError.wrapped; n, pc: StackTrace.n
\* and the filled part of StackTrace.pc.
Node(type, message, kind, cause, pc) ==
    [type |-> type, message |-> message, kind |-> kind, cause |-> cause,
     n |-> Len(pc), pc |-> pc]

Ptrs(h) == 1..Len(h)

Errs(h) == {Nil} \cup Ptrs(h)

\* The text of an error of the calling code (its Error() string).
TextOf(type) ==
    CASE type = "errorString" -> "test errors err"
      [] type = "testBaseError" -> "Test base error"
      [] type = "testAsError" -> "Test as error"
      [] type = "asUnwrapError" -> "Test as error"
      [] OTHER -> "Test single unwrap error"

\* ------------------------------------------------------------ call stacks

\* A frame (runtime.Frame): function, file and line.  The frames of the
\* calling code are numbered from 1 (the function that calls into the
\* library) to d (the outermost frame).
Frame(fn, file, line) == [fn |-> fn, file |-> file, line |-> line]

CallerStack(d) == [i \in 1..d |-> Frame("caller", "caller.go", i)]

LibFrames(fns) == [i \in 1..Len(fns) |-> Frame(fns[i], "kerrors.go", 0)]

\* runtime.Callers into a buffer without a capacity.
CallersNoCap(skip, stack) ==
    IF skip + 1 > Len(stack) THEN <<>> ELSE SubSeq(stack, skip + 1, Len(stack))

\* runtime.Callers(skip, pc[:]): the frames of the running stack from index
\* skip on (index 0 is Callers itself), at most PCCap of them.
Callers(skip, stack) ==
    LET from == skip + 1
        upto == IF Len(stack) < skip + PCCap THEN Len(stack) ELSE skip + PCCap
    IN  IF from > Len(stack) THEN <<>> ELSE SubSeq(stack, from, upto)

\* NewStackTrace(err, skip), called with `stack` as the stack of its caller.
NewStackTrace(err, skip, stack) ==
    Node("StackTrace", "", Nil, err,
         Callers(2 + skip, LibFrames(<<"runtime.Callers", "NewStackTrace">>) \o stack))

\* StackTrace.PC()
PC(e) == SubSeq(e.pc, 1, e.n)

\* StackTrace.stackIter(): the frames of PC(), none when n <= 0.
StackIter(e) == IF e.n <= 0 THEN <<>> ELSE PC(e)

\* ------------------------------------------------------------ chain search

\* err.(T): the dynamic type of the value satisfies the target shape.
Satisfies(type, T) ==
    \/ type = T
    \/ T = "StackStringer" /\ type = "StackTrace"

\* errorAser: the types with an As(any) bool method.
HasAs(type) == type \in {"testAsError", "asUnwrapError"}

\* testAsError.As: succeeds exactly for a **testBaseError target.
AsHook(type, T) == T = "testBaseError"

\* errorUnwrapper: the types with Unwrap() []error.
HasUnwrapMulti(type) == type = "Error"

\* HasUnwrapSingle with StackTrace.Unwrap left out.
HasUnwrapSingleNoTrace(type) ==
    type \in {"testSingleUnwrapError", "asUnwrapError"}

\* errorSingleUnwrapper: the types with Unwrap() error.
HasUnwrapSingle(type) ==
    type \in {"StackTrace", "testSingleUnwrapError", "asUnwrapError"}

\* Unwrap with the cause put before the kind.
UnwrapCauseFirst(h, e) ==
    IF h[e].kind = Nil THEN <<h[e].cause>> ELSE <<h[e].cause, h[e].kind>>

\* Error.Unwrap() []error: [kind, cause] without a nil kind.
Unwrap(h, e) ==
    IF h[e].kind = Nil THEN <<h[e].cause>> ELSE <<h[e].kind, h[e].cause>>

\* StackTrace.Unwrap() error, testSingleUnwrapError.Unwrap() error.
UnwrapSingle(h, e) == h[e].cause

\* var t T; return t, false
NotFound == [ok |-> FALSE, val |-> Nil]

Found(v) == [ok |-> TRUE, val |-> v]

RECURSIVE Find(_, _, _)
RECURSIVE FindEach(_, _, _)

\* The loop of Find over a multi-unwrap list: the first success.
FindEach(h, errs, T) ==
    IF errs = <<>> THEN NotFound
    ELSE LET r == Find(h, Head(errs), T)
         IN  IF r.ok THEN r ELSE FindEach(h, Tail(errs), T)

\* Find without its nil check reporting not-found: nil counts as found.
FindNilFound(h, err, T) ==
    IF err = Nil THEN Found(Nil)
    ELSE IF Satisfies(h[err].type, T) THEN Found(err)
    ELSE IF HasAs(h[err].type)
         THEN (IF AsHook(h[err].type, T) THEN Found(FreshBase) ELSE NotFound)
    ELSE IF HasUnwrapMulti(h[err].type) THEN FindEach(h, Unwrap(h, err), T)
    ELSE IF HasUnwrapSingle(h[err].type) THEN Find(h, UnwrapSingle(h, err), T)
    ELSE NotFound

\* Find[T](err).  The type switch takes the first case the value satisfies:
\* a value with an As method never reaches the Unwrap cases.
Find(h, err, T) ==
    IF err = Nil THEN NotFound
    ELSE IF Satisfies(h[err].type, T) THEN Found(err)
    ELSE IF HasAs(h[err].type)
         THEN (IF AsHook(h[err].type, T) THEN Found(FreshBase) ELSE NotFound)
    ELSE IF HasUnwrapMulti(h[err].type) THEN FindEach(h, Unwrap(h, err), T)
    ELSE IF HasUnwrapSingle(h[err].type) THEN Find(h, UnwrapSingle(h, err), T)
    ELSE NotFound

\* ---------------------------------------------------------- construction

\* The result of an operation that may allocate: the heap after it and the
\* value it returns.
Ret(h, val) == [heap |-> h, val |-> val]

\* AddStackTrace that never adds a trace.
AddStackTraceNever(h, err, skip, stack) == Ret(h, err)

\* AddStackTrace that adds a trace without looking for one.
AddStackTraceAlways(h, err, skip, stack) ==
    Ret(Append(h, NewStackTrace(err, 1 + skip,
                                LibFrames(<<"AddStackTrace">>) \o stack)),
        Len(h) + 1)

\* AddStackTrace(err, skip), called with `stack` as the stack of its caller.
AddStackTrace(h, err, skip, stack) ==
    IF Find(h, err, "StackTrace").ok
    THEN Ret(h, err)
    ELSE Ret(Append(h, NewStackTrace(err, 1 + skip,
                                     LibFrames(<<"AddStackTrace">>) \o stack)),
             Len(h) + 1)

\* OptSkip that sets the skip.
OptSkipSet(skip, k) == k

\* OptSkip(k) applied to an Error whose skip is `skip`: e.skip += k.
OptSkip(skip, k) == skip + k

\* New that makes the trace and then stores the cause it was given.
NewKeepsCause(h, message, kind, cause, skip, stack) ==
    LET st == AddStackTrace(h, cause, 1 + skip, LibFrames(<<"New">>) \o stack)
    IN  Ret(Append(st.heap, Node("Error", message, kind, cause, <<>>)),
            Len(st.heap) + 1)

\* New that, given an Error as the cause, stores the message and the kind
\* into that Error and returns it.
NewInPlace(h, message, kind, cause, skip, stack) ==
    IF cause # Nil /\ h[cause].type = "Error"
    THEN Ret([h EXCEPT ![cause].message = message, ![cause].kind = kind], cause)
    ELSE LET st == AddStackTrace(h, cause, 1 + skip, LibFrames(<<"New">>) \o stack)
         IN  Ret(Append(st.heap, Node("Error", message, kind, st.val, <<>>)),
                 Len(st.heap) + 1)

\* New(opts...) with the options already applied to e: message, wrapped[0],
\* wrapped[1] and the accumulated skip.
New(h, message, kind, cause, skip, stack) ==
    LET st == AddStackTrace(h, cause, 1 + skip, LibFrames(<<"New">>) \o stack)
    IN  Ret(Append(st.heap, Node("Error", message, kind, st.val, <<>>)),
            Len(st.heap) + 1)

\* WithMsg(err, msg)
WithMsg(h, err, msg, stack) ==
    New(h, msg, Nil, err, 1, LibFrames(<<"WithMsg">>) \o stack)

\* WithKind(err, kind, msg)
WithKind(h, err, kind, msg, stack) ==
    New(h, msg, kind, err, 1, LibFrames(<<"WithKind">>) \o stack)

\* -------------------------------------------------------------- errors.Is

RECURSIVE ErrorsIs(_, _, _)

\* errors.Is(err, target) of the standard library on the types above: the
\* value itself, then its Unwrap() []error list, or its Unwrap() error.
ErrorsIs(h, err, target) ==
    IF err = Nil \/ target = Nil THEN err = target
    ELSE IF err = target THEN TRUE
    ELSE IF HasUnwrapMulti(h[err].type)
         THEN \E i \in 1..Len(Unwrap(h, err)) : ErrorsIs(h, Unwrap(h, err)[i], target)
    ELSE IF HasUnwrapSingle(h[err].type)
         THEN UnwrapSingle(h, err) # Nil /\ ErrorsIs(h, UnwrapSingle(h, err), target)
    ELSE FALSE

\* -------------------------------------------------------- structured tree

\* A JSON value is a function on field names; a field tagged omitempty is
\* absent from it when its value is nil.  A JSON string that stands alone
\* is [str |-> s], the JSON null is [null |-> TRUE].
JNull == [null |-> TRUE]

JStr(s) == [str |-> s]

NoFields == [k \in {} |-> k]

\* A field tagged omitempty.
OmitEmpty(key, v) == IF v = JNull THEN NoFields ELSE key :> v

\* stackFrameJSON
StackFrameJSON(f) == [fn |-> f.fn, file |-> f.file, line |-> f.line]

RECURSIVE JSONValue(_, _)

\* Error.JSONErrorValue() that leaves the cause out.
ErrorJSONValueNoCause(h, e) ==
    ("msg" :> h[e].message) @@ OmitEmpty("kind", JSONValue(h, h[e].kind))

\* Error.JSONErrorValue(): errorJSON{msg, kind omitempty, cause omitempty}.
ErrorJSONValue(h, e) ==
    ("msg" :> h[e].message)
        @@ OmitEmpty("kind", JSONValue(h, h[e].kind))
        @@ OmitEmpty("cause", JSONValue(h, h[e].cause))

\* StackTrace.JSONErrorValue(): stackTraceJSON{msg, stack omitempty,
\* cause omitempty}; a stack of no frames is omitted.
StackTraceJSONValue(h, e) ==
    LET frames == StackIter(h[e])
        stack == [i \in 1..Len(frames) |-> StackFrameJSON(frames[i])]
    IN  ("msg" :> "Stack trace")
            @@ (IF stack = <<>> THEN NoFields ELSE "stack" :> stack)
            @@ OmitEmpty("cause", JSONValue(h, h[e].cause))

\* JSONValue that gives the Error() string of every error that is not a
\* JSONValuer.
JSONValueOpaque(h, err) ==
    IF err = Nil THEN JNull
    ELSE IF h[err].type = "Error" THEN ErrorJSONValue(h, err)
    ELSE IF h[err].type = "StackTrace" THEN StackTraceJSONValue(h, err)
    ELSE JStr(h[err].message)

\* JSONValue(err): a JSONValuer converts itself, another error with an
\* Unwrap() error gives unwrappedErrorJSON{msg, cause}, any other error its
\* Error() string.
JSONValue(h, err) ==
    IF err = Nil THEN JNull
    ELSE IF h[err].type = "Error" THEN ErrorJSONValue(h, err)
    ELSE IF h[err].type = "StackTrace" THEN StackTraceJSONValue(h, err)
    ELSE IF HasUnwrapSingle(h[err].type)
         THEN ("msg" :> h[err].message) @@ ("cause" :> JSONValue(h, h[err].cause))
    ELSE JStr(h[err].message)

\* ------------------------------------------------------------ flat text

\* strconv.Itoa on a number that is not negative.
Digits == <<"0", "1", "2", "3", "4", "5", "6", "7", "8", "9">>

RECURSIVE Itoa(_)

Itoa(n) ==
    IF n < 10 THEN Digits[n + 1] ELSE Itoa(n \div 10) \o Digits[(n % 10) + 1]

\* Error.Error() that goes on into the cause.
Error_ErrorWithCause(h, e) ==
    IF h[e].cause = Nil THEN h[e].message
    ELSE h[e].message \o ": " \o h[h[e].cause].message

\* Error.Error(): the message of this node alone.
Error_Error(h, e) == h[e].message

\* StackTrace.writeStackFrame(b, f)
WriteStackFrame(b, f) == b \o f.fn \o " " \o f.file \o ":" \o Itoa(f.line)

\* StackTrace.Error() without the empty marker: nothing for no frames.
StackTrace_ErrorNoMarker(h, e) ==
    IF h[e].n > 0 THEN WriteStackFrame("Stack trace (", h[e].pc[1]) \o ")" ELSE ""

\* StackTrace.Error(): the first frame in brackets, or the empty marker.
StackTrace_Error(h, e) ==
    LET b == "Stack trace ("
    IN  (IF h[e].n > 0 THEN WriteStackFrame(b, h[e].pc[1]) ELSE b \o "empty") \o ")"

\* One round of the loop of StackString over stackIter(): a newline before
\* every frame but the first, then the frame.
FrameLine(frames, i) ==
    WriteStackFrame(IF i = 1 THEN "" ELSE "\n", frames[i])

RECURSIVE JoinFrames(_, _, _)

\* What the rounds lo..hi of that loop write, in order (the range is halved
\* so that the evaluation stays shallow on a long trace).
JoinFrames(frames, lo, hi) ==
    IF lo > hi THEN ""
    ELSE IF lo = hi THEN FrameLine(frames, lo)
    ELSE LET mid == (lo + hi) \div 2
         IN  JoinFrames(frames, lo, mid) \o JoinFrames(frames, mid + 1, hi)

\* StackTrace.StackString()
StackString(h, e) ==
    LET frames == StackIter(h[e]) IN JoinFrames(frames, 1, Len(frames))

\* err.Error() through the error interface.
ErrorOf(h, err) ==
    IF h[err].type = "Error" THEN Error_Error(h, err)
    ELSE IF h[err].type = "StackTrace" THEN StackTrace_Error(h, err)
    ELSE h[err].message

\* ------------------------------------------ the revision with Error.Is

\* An earlier revision of the library, kept in the source beside the current
\* one: Error{Message, Kind, Inner} with Unwrap() error, Is and As, and a
\* StackTrace that wraps nothing.  Its values are nodes of type "ErrorV1"
\* (message, kind and cause hold Message, Kind and Inner) and "StackTraceV1".

RECURSIVE IsV1(_, _, _)

\* Error.Is that searches the inner error as well as the kind.
Error_IsInner(h, e, target) ==
    \/ h[e].kind # Nil /\ IsV1(h, h[e].kind, target)
    \/ h[e].cause # Nil /\ IsV1(h, h[e].cause, target)

\* Error.Is(target): only the kind is searched.
Error_Is(h, e, target) ==
    IF h[e].kind = Nil THEN FALSE ELSE IsV1(h, h[e].kind, target)

\* errors.Is(err, target) of the standard library on the values of that
\* revision: the value itself, then its Is method, then its Unwrap() error.
IsV1(h, err, target) ==
    IF err = Nil \/ target = Nil THEN err = target
    ELSE IF err = target THEN TRUE
    ELSE IF h[err].type = "ErrorV1" /\ Error_Is(h, err, target) THEN TRUE
    ELSE IF h[err].type = "ErrorV1"
         THEN h[err].cause # Nil /\ IsV1(h, h[err].cause, target)
    ELSE FALSE

RECURSIVE AsV1(_, _, _)

\* Error.As(target): only the kind is searched.
Error_As(h, e, T) ==
    IF h[e].kind = Nil THEN FALSE ELSE AsV1(h, h[e].kind, T)

\* errors.As(err, &target) of the standard library on the values of that
\* revision: the value itself, then its As method, then its Unwrap() error.
AsV1(h, err, T) ==
    IF err = Nil THEN FALSE
    ELSE IF h[err].type = T THEN TRUE
    ELSE IF h[err].type = "ErrorV1" /\ Error_As(h, err, T) THEN TRUE
    ELSE IF h[err].type = "ErrorV1" THEN AsV1(h, h[err].cause, T)
    ELSE FALSE

\* NewStackTrace(skip) of that revision: runtime.Callers(1+skip, pc[:]).
NewStackTraceV1(skip, stack) ==
    Node("StackTraceV1", "", Nil, Nil,
         Callers(1 + skip, LibFrames(<<"runtime.Callers", "NewStackTrace">>) \o stack))

\* addStackTrace(err, skip) of that revision: the trace is the kind of a new
\* Error{"Stack trace"} whose Inner is err.
AddStackTraceV1(h, err, skip, stack) ==
    IF err # Nil /\ AsV1(h, err, "StackTraceV1")
    THEN Ret(h, err)
    ELSE LET st == NewStackTraceV1(1 + skip, LibFrames(<<"addStackTrace">>) \o stack)
         IN  Ret(h \o <<st, Node("ErrorV1", "Stack trace", Len(h) + 1, err, <<>>)>>,
                 Len(h) + 2)

\* New(opts...) of that revision, with the options already applied.
NewV1(h, message, kind, inner, stack) ==
    LET st == AddStackTraceV1(h, inner, 2, LibFrames(<<"New">>) \o stack)
    IN  Ret(Append(st.heap, Node("ErrorV1", message, kind, st.val, <<>>)),
            Len(st.heap) + 1)

\* ---------------------------------------- the revision with WriteError

\* The revision of the library that renders a chain as one flat string:
\* Error{Message, wrapped[2], skip} with WriteError and Unwrap() []error, and
\* a StackTrace that wraps nothing and is stored as the kind of an
\* Error{"Stack trace"}.  Its values are nodes of type "ErrorV2" and
\* "StackTraceV2".

\* ErrorWriter: the types with a WriteError method.
HasWriteError(type) == type \in {"ErrorV2", "StackTraceV2"}

\* StackTrace.WriteError(b): function, file and line of the first frame, and
\* nothing for a trace of no frames.  b is the text written so far.
StackTrace_WriteError(h, e, b) ==
    IF h[e].n <= 0 THEN b
    ELSE LET f == h[e].pc[1]
         IN  b \o f.fn \o " " \o f.file \o ":" \o Itoa(f.line)

RECURSIVE Error_WriteError(_, _, _)

\* k.WriteError(b) for an ErrorWriter, kind.Error() for any other error.
WriteWrapped(h, e, b) ==
    IF HasWriteError(h[e].type)
    THEN (IF h[e].type = "ErrorV2" THEN Error_WriteError(h, e, b)
          ELSE StackTrace_WriteError(h, e, b))
    ELSE b \o h[e].message

\* Error.WriteError that does not close the kind block.
Error_WriteErrorNoClose(h, e, b) ==
    LET b1 == b \o h[e].message
        b2 == IF h[e].kind # Nil
              THEN WriteWrapped(h, h[e].kind, b1 \o "\n[[\n")
              ELSE b1
    IN  IF h[e].cause # Nil
        THEN WriteWrapped(h, h[e].cause, b2 \o "\n--\n")
        ELSE b2

\* Error.WriteError(b)
Error_WriteError(h, e, b) ==
    LET b1 == b \o h[e].message
        b2 == IF h[e].kind # Nil
              THEN WriteWrapped(h, h[e].kind, b1 \o "\n[[\n") \o "\n]]"
              ELSE b1
    IN  IF h[e].cause # Nil
        THEN WriteWrapped(h, h[e].cause, b2 \o "\n--\n")
        ELSE b2

\* Error.Error(): WriteError into an empty strings.Builder.
Error_ErrorV2(h, e) == Error_WriteError(h, e, "")

\* Error.Unwrap() []error of that revision: wrapped[start:end].
UnwrapV2(h, e) ==
    (IF h[e].kind = Nil THEN <<>> ELSE <<h[e].kind>>)
        \o (IF h[e].cause = Nil THEN <<>> ELSE <<h[e].cause>>)

RECURSIVE AsV2(_, _, _)

\* errors.As(err, &target) of the standard library on the values of that
\* revision: the value itself, then each entry of its Unwrap() []error.
AsV2(h, err, T) ==
    IF err = Nil THEN FALSE
    ELSE IF h[err].type = T THEN TRUE
    ELSE IF h[err].type = "ErrorV2"
         THEN \E i \in 1..Len(UnwrapV2(h, err)) : AsV2(h, UnwrapV2(h, err)[i], T)
    ELSE FALSE

\* NewStackTrace(skip) of that revision: runtime.Callers(2+skip, pc[:]).
NewStackTraceV2(skip, stack) ==
    Node("StackTraceV2", "", Nil, Nil,
         Callers(2 + skip, LibFrames(<<"runtime.Callers", "NewStackTrace">>) \o stack))

\* addStackTrace(err, skip) of that revision.
AddStackTraceV2(h, err, skip, stack) ==
    IF err # Nil /\ AsV2(h, err, "StackTraceV2")
    THEN Ret(h, err)
    ELSE LET st == NewStackTraceV2(1 + skip, LibFrames(<<"addStackTrace">>) \o stack)
         IN  Ret(h \o <<st, Node("ErrorV2", "Stack trace", Len(h) + 1, err, <<>>)>>,
                 Len(h) + 2)

\* New(opts...) of that revision, with the options already applied.
NewV2(h, message, kind, inner, skip, stack) ==
    LET st == AddStackTraceV2(h, inner, 1 + skip, LibFrames(<<"New">>) \o stack)
    IN  Ret(Append(st.heap, Node("ErrorV2", message, kind, st.val, <<>>)),
            Len(st.heap) + 1)

\* ------------------------------------------------------------ the machine

\* What the last operation was, what it was given (err, kind, msg, the
\* shape T of Find, the target of errors.Is), what it returned (val, ok,
\* tree) and the size of the heap before it.
Op(op, err, kind, msg, T, target, val, ok, tree, before) ==
    [op |-> op, err |-> err, kind |-> kind, msg |-> msg, T |-> T,
     target |-> target, val |-> val, ok |-> ok, tree |-> tree,
     before |-> before]

Init ==
    /\ heap = <<>>
    /\ last = Op("none", Nil, Nil, "", "none", Nil, Nil, FALSE, JNull, 0)
    /\ phase = "build"

\* A step of the calling code that builds an error value and keeps building.
Build(max, op, err, kind, msg, r) ==
    /\ phase = "build"
    /\ Len(r.heap) <= max
    /\ heap' = r.heap
    /\ last' = Op(op, err, kind, msg, "none", Nil, r.val, TRUE, JNull, Len(heap))
    /\ UNCHANGED phase

\* A step of the calling code that inspects an error value; the run of the
\* calling code ends with it.
Inspect(op, err, T, target, val, ok, tree) ==
    /\ phase = "build"
    /\ heap' = heap
    /\ last' = Op(op, err, Nil, "", T, target, val, ok, tree, Len(heap))
    /\ phase' = "done"

\* The calling code makes a leaf error: errors.New(...) or &testBaseError{}.
MakeLeaf(max) ==
    \E type \in LeafTypes :
        Build(max, "leaf", Nil, Nil, "",
              Ret(Append(heap, Node(type, TextOf(type), Nil, Nil, <<>>)),
                  Len(heap) + 1))

\* The calling code wraps an error in one of its own types:
\* &testAsError{}, &testSingleUnwrapError{wrapped: err}, &asUnwrapError{wrapped: err}.
MakeWrapper(max) ==
    \E type \in WrapperTypes, err \in Errs(heap) :
        /\ type = "testAsError" => err = Nil
        /\ Build(max, "wrap", err, Nil, "",
                 Ret(Append(heap, Node(type, TextOf(type), Nil, err, <<>>)),
                     Len(heap) + 1))

DoNew(max) ==
    \E msg \in Msgs, kind \in Errs(heap), cause \in Errs(heap), skip \in Skips :
        Build(max, "New", cause, kind, msg,
              New(heap, msg, kind, cause, skip, CallerStack(CallDepth)))

\* New() with the empty list of options: no message, no kind, no cause.
DoNewNoOpts(max) ==
    Build(max, "New", Nil, Nil, "",
          New(heap, "", Nil, Nil, 0, CallerStack(CallDepth)))

DoWithMsg(max) ==
    \E msg \in Msgs, err \in Errs(heap) :
        Build(max, "WithMsg", err, Nil, msg,
              WithMsg(heap, err, msg, CallerStack(CallDepth)))

DoWithKind(max) ==
    \E msg \in Msgs, err \in Errs(heap), kind \in Errs(heap) :
        Build(max, "WithKind", err, kind, msg,
              WithKind(heap, err, kind, msg, CallerStack(CallDepth)))

DoAddStackTrace(max) ==
    \E err \in Errs(heap), skip \in Skips :
        Build(max, "AddStackTrace", err, Nil, "",
              AddStackTrace(heap, err, skip, CallerStack(CallDepth)))

\* The values the calling code inspects: the one it was handed last, and nil.
Inspected == {last.val, Nil}

DoFind ==
    \E err \in Inspected, T \in Shapes :
        LET r == Find(heap, err, T)
        IN  Inspect("Find", err, T, Nil, r.val, r.ok, JNull)

\* errors.Is(err, target) against a value of the heap.
DoIs ==
    \E err \in Inspected, target \in Ptrs(heap) :
        Inspect("Is", err, "none", target, Nil, ErrorsIs(heap, err, target), JNull)

DoJSONValue ==
    \E err \in Inspected :
        Inspect("JSONValue", err, "none", Nil, Nil, TRUE, JSONValue(heap, err))

\* err.Error(); the string is kept as the rendering the call returned.
DoError ==
    \E err \in Inspected \ {Nil} :
        Inspect("Error", err, "none", Nil, Nil, TRUE, JStr(ErrorOf(heap, err)))

\* st.StackString() on a StackTrace.
DoStackString ==
    \E err \in Inspected \ {Nil} :
        /\ heap[err].type = "StackTrace"
        /\ Inspect("StackString", err, "none", Nil, Nil, TRUE,
                   JStr(StackString(heap, err)))

\* The library's constructors over the leaf errors of the calling code.
Next ==
    \/ MakeLeaf(MaxNodes)
    \/ DoNew(MaxNodes)
    \/ DoNewNoOpts(MaxNodes)
    \/ DoWithMsg(MaxNodes)
    \/ DoWithKind(MaxNodes)
    \/ DoAddStackTrace(MaxNodes)
    \/ DoFind
    \/ DoIs
    \/ DoJSONValue
    \/ DoError
    \/ DoStackString

Spec == Init /\ [][Next]_vars

\* The chain search over chains that hold the calling code's own wrappers.
FindNext ==
    \/ MakeLeaf(MaxFindNodes)
    \/ MakeWrapper(MaxFindNodes)
    \/ DoNew(MaxFindNodes)
    \/ DoNewNoOpts(MaxFindNodes)
    \/ DoFind
    \/ DoJSONValue

FindSpec == Init /\ [][FindNext]_vars

\* New(OptMsg(msg), OptKind(kind), OptInner(inner)) of the revision with
\* Error.Is.
DoNewV1(max) ==
    \E msg \in Msgs, kind \in Errs(heap), inner \in Errs(heap) :
        Build(max, "NewV1", inner, kind, msg,
              NewV1(heap, msg, kind, inner, CallerStack(CallDepth)))

\* err.Is(target) on an Error of that revision.
DoErrorIs ==
    \E err \in Inspected \ {Nil}, target \in Ptrs(heap) :
        /\ heap[err].type = "ErrorV1"
        /\ Inspect("Error.Is", err, "none", target, Nil,
                   Error_Is(heap, err, target), JNull)

\* The revision with Error.Is, over the leaf errors of the calling code.
IsNext ==
    \/ MakeLeaf(MaxIsNodes)
    \/ DoNewV1(MaxIsNodes)
    \/ DoErrorIs

IsSpec == Init /\ [][IsNext]_vars

\* The number of error values one behaviour of TextSpec allocates.
MaxTextNodes == 5

\* New(OptMsg(msg), OptKind(kind), OptInner(inner)) of the revision with
\* WriteError.
DoNewV2(max) ==
    \E msg \in Msgs, kind \in Errs(heap), inner \in Errs(heap) :
        Build(max, "NewV2", inner, kind, msg,
              NewV2(heap, msg, kind, inner, 0, CallerStack(CallDepth)))

\* err.Error() on an Error of that revision; the string is kept as the
\* rendering the call returned.
DoErrorV2 ==
    \E err \in Inspected \ {Nil} :
        /\ heap[err].type = "ErrorV2"
        /\ Inspect("Error", err, "none", Nil, Nil, TRUE,
                   JStr(Error_ErrorV2(heap, err)))

\* The revision with WriteError, over the leaf errors of the calling code.
TextNext ==
    \/ MakeLeaf(MaxTextNodes)
    \/ DoNewV2(MaxTextNodes)
    \/ DoErrorV2

TextSpec == Init /\ [][TextNext]_vars

\* A call into the library from a call stack of the given depth: the one
\* call of a run of the calling code that captures a trace.  The skip asked
\* for and the depth are kept with the call.
Capture(op, err, kind, msg, skip, depth, r) ==
    /\ phase = "build"
    /\ last.op \in {"none", "leaf"}
    /\ heap' = r.heap
    /\ last' = Op(op, err, kind, msg, "none", Nil, r.val, TRUE, JNull, Len(heap))
                   @@ [skip |-> skip, depth |-> depth]
    /\ UNCHANGED phase

\* The calling code of CaptureSpec has at most one error of its own to hand
\* to the library.
CaptureLeaf == heap = <<>> /\ MakeLeaf(MaxNodes)

CaptureNewStackTrace ==
    \E err \in Errs(heap), skip \in 0..MaxSkip, depth \in 0..MaxDepth :
        Capture("NewStackTrace", err, Nil, "", skip, depth,
                Ret(Append(heap, NewStackTrace(err, skip, CallerStack(depth))),
                    Len(heap) + 1))

CaptureAddStackTrace ==
    \E err \in Errs(heap), skip \in 0..MaxSkip, depth \in 0..MaxDepth :
        Capture("AddStackTrace", err, Nil, "", skip, depth,
                AddStackTrace(heap, err, skip, CallerStack(depth)))

\* New(OptMsg(msg), OptCause(cause), OptSkip(k1), OptSkip(k2))
CaptureNew ==
    \E msg \in Msgs, cause \in Errs(heap), k1 \in 0..MaxSkip, k2 \in 0..MaxSkip,
       depth \in 0..MaxDepth :
        Capture("New", cause, Nil, msg, k1 + k2, depth,
                New(heap, msg, Nil, cause, OptSkip(OptSkip(0, k1), k2),
                    CallerStack(depth)))

CaptureWithMsg ==
    \E msg \in Msgs, err \in Errs(heap), depth \in 0..MaxDepth :
        Capture("WithMsg", err, Nil, msg, 0, depth,
                WithMsg(heap, err, msg, CallerStack(depth)))

CaptureWithKind ==
    \E msg \in Msgs, err \in Errs(heap), kind \in Errs(heap), depth \in 0..MaxDepth :
        Capture("WithKind", err, kind, msg, 0, depth,
                WithKind(heap, err, kind, msg, CallerStack(depth)))

\* Stack capture from call stacks of every depth, and the renderings of the
\* trace.
CaptureNext ==
    \/ CaptureLeaf
    \/ CaptureNewStackTrace
    \/ CaptureAddStackTrace
    \/ CaptureNew
    \/ CaptureWithMsg
    \/ CaptureWithKind
    \/ DoStackString
    \/ DoError
    \/ DoJSONValue

CaptureSpec == Init /\ [][CaptureNext]_vars

\* ---------------------------------------------------- chains, as sets

RECURSIVE Reach(_, _)

\* The nodes reached from e by following kind and cause links, e included.
Reach(h, e) ==
    IF e = Nil THEN {}
    ELSE {e} \cup Reach(h, h[e].kind) \cup Reach(h, h[e].cause)

RECURSIVE CauseChain(_, _)

\* The nodes reached from e by following cause links alone, e included.
CauseChain(h, e) ==
    IF e = Nil THEN {} ELSE {e} \cup CauseChain(h, h[e].cause)

StackTracesIn(h, S) == {x \in S : h[x].type = "StackTrace"}

\* No path beyond this length exists in a heap of the sizes checked.
Far == 99

Least(a, b) == IF a < b THEN a ELSE b

RECURSIVE Dist(_, _, _)

\* The depth of node x below e: the number of links of the shortest path.
Dist(h, e, x) ==
    IF e = Nil THEN Far
    ELSE IF e = x THEN 0
    ELSE Least(Far, 1 + Least(Dist(h, h[e].kind, x), Dist(h, h[e].cause, x)))

RECURSIVE CauseLeaf(_, _)

\* The last node of the cause chain of e: what the wraps of e are around.
CauseLeaf(h, e) ==
    IF h[e].cause = Nil THEN e ELSE CauseLeaf(h, h[e].cause)

RECURSIVE Constructed(_, _)

\* e is a leaf error, or an Error whose kind and cause arguments were leaf
\* errors or Errors of this kind.  (The StackTrace of its cause slot is the
\* one New placed above the argument.)
Constructed(h, e) ==
    IF e = Nil THEN TRUE
    ELSE IF h[e].type \in LeafTypes THEN TRUE
    ELSE IF h[e].type = "Error"
         THEN /\ (h[e].kind # Nil => h[h[e].kind].type \in LeafTypes \cup {"Error"})
              /\ Constructed(h, h[e].kind)
              /\ LET c == h[e].cause
                 IN  IF h[c].type = "StackTrace"
                     THEN /\ h[c].cause # Nil => h[h[c].cause].type \in LeafTypes
                          /\ Constructed(h, h[c].cause)
                     ELSE h[c].type = "Error" /\ Constructed(h, c)
    ELSE FALSE

IsConstructor(op) == op \in {"New", "WithMsg", "WithKind"}

\* ------------------------------------------------------------------- C1

\* C1: the error New returns, for every list of options, holds a StackTrace
\* that the chain search reaches: Find[*StackTrace] and Find[StackStringer]
\* on it both report found.
C1_NewHoldsStackTrace ==
    /\ last.op = "New" =>
           /\ Find(heap, last.val, "StackTrace").ok
           /\ Find(heap, last.val, "StackStringer").ok
    /\ (/\ last.op = "Find"
        /\ last.err # Nil
        /\ last.T \in {"StackTrace", "StackStringer"}
        /\ heap[last.err].type = "Error") => last.ok

\* New was given a cause in which no StackTrace is found (here: one hidden
\* below a failing As hook), and Find on the result reports the StackTrace.
C1_Witness ==
    /\ last.op = "Find"
    /\ last.T = "StackTrace"
    /\ last.err # Nil
    /\ heap[last.err].type = "Error"
    /\ heap[last.err].kind # Nil
    /\ heap[heap[last.err].cause].cause # Nil
    /\ last.ok
    /\ heap[last.val].type = "StackTrace"

\* ------------------------------------------------------------------- C2

\* C2 as stated: for every error built by New, WithMsg or WithKind from leaf
\* errors and errors built by these constructors, the nodes reached by kind
\* and cause links hold at most one StackTrace.
C2_Original ==
    \A e \in Ptrs(heap) :
        (heap[e].type = "Error" /\ Constructed(heap, e)) =>
            Cardinality(StackTracesIn(heap, Reach(heap, e))) <= 1

\* C2 amended: ... the nodes reached by cause links alone hold exactly one
\* StackTrace (a kind built by these constructors brings its own).
C2_OnePerCauseChain ==
    \A e \in Ptrs(heap) :
        heap[e].type = "Error" =>
            Cardinality(StackTracesIn(heap, CauseChain(heap, e))) = 1

\* A constructor has wrapped an error that already carried a StackTrace, with
\* a kind that is itself an Error.
C2_Witness ==
    /\ IsConstructor(last.op)
    /\ Constructed(heap, last.val)
    /\ last.err # Nil
    /\ heap[last.err].type = "Error"
    /\ last.kind # Nil
    /\ heap[last.kind].type = "Error"
    /\ Cardinality(StackTracesIn(heap, CauseChain(heap, last.val))) = 1

\* ------------------------------------------------------------------- C3

\* AddStackTrace on what AddStackTrace returned gives back the same value and
\* allocates nothing, whatever the skip.
AddStackTraceAgainSame ==
    last.op = "AddStackTrace" =>
        \A skip \in 0..1 :
            AddStackTrace(heap, last.val, skip, CallerStack(CallDepth))
                = Ret(heap, last.val)

\* C3 as stated: the second call returns the very same chain as the first, so
\* the chain holds exactly one StackTrace node.
C3_Original ==
    /\ AddStackTraceAgainSame
    /\ last.op = "AddStackTrace" =>
           Cardinality(StackTracesIn(heap, Reach(heap, last.val))) = 1

\* C3 amended: the second call returns the very same chain as the first and
\* adds no node, so the chain holds the StackTrace nodes it held after the
\* first call, at the same positions (at least one of them).
C3_Idempotent ==
    /\ AddStackTraceAgainSame
    /\ last.op = "AddStackTrace" =>
           Cardinality(StackTracesIn(heap, Reach(heap, last.val))) >= 1

\* AddStackTrace was called on the StackTrace an earlier call had made: it
\* returned its argument and allocated nothing.
C3_Witness ==
    /\ last.op = "AddStackTrace"
    /\ last.err # Nil
    /\ heap[last.err].type = "StackTrace"
    /\ last.val = last.err
    /\ Len(heap) = last.before

\* ------------------------------------------------------------------- C4

\* C4: when no StackTrace is found in the cause given to New (a nil cause
\* included), the new node's cause is a fresh StackTrace whose cause is the
\* given cause; when one is found, the given cause is stored unchanged.  In
\* WithMsg(WithMsg(leaf, "mid"), "outer") the StackTrace is there once,
\* directly above the leaf, and the outer wrap adds none.
C4_Placement ==
    /\ IsConstructor(last.op) =>
           LET e == heap[last.val]
           IN  /\ e.type = "Error"
               /\ IF Find(heap, last.err, "StackTrace").ok
                  THEN /\ e.cause = last.err
                       /\ Len(heap) = last.before + 1
                  ELSE /\ e.cause > last.before
                       /\ e.cause # last.val
                       /\ Len(heap) = last.before + 2
                       /\ heap[e.cause].type = "StackTrace"
                       /\ heap[e.cause].cause = last.err
    /\ (/\ last.op = "WithMsg"
        /\ last.err # Nil
        /\ heap[last.err].type = "Error"
        /\ heap[last.err].kind = Nil
        /\ heap[heap[last.err].cause].type = "StackTrace"
        /\ heap[heap[last.err].cause].cause # Nil
        /\ heap[heap[heap[last.err].cause].cause].type \in LeafTypes) =>
           /\ heap[last.val].cause = last.err
           /\ Len(heap) = last.before + 1
           /\ StackTracesIn(heap, Reach(heap, last.val)) = {heap[last.err].cause}

\* WithMsg(WithMsg(leaf, "mid"), "outer") has been built.
C4_Witness ==
    /\ last.op = "WithMsg"
    /\ last.err # Nil
    /\ heap[last.err].type = "Error"
    /\ heap[last.err].kind = Nil
    /\ heap[heap[last.err].cause].type = "StackTrace"
    /\ heap[heap[last.err].cause].cause # Nil
    /\ heap[heap[heap[last.err].cause].cause].type \in LeafTypes
    /\ heap[last.val].cause = last.err

\* ------------------------------------------------------------------- C5

\* What Find looks at, in the order it looks: the node itself, then its As
\* hook; below a node without an As hook, its kind and then its cause.
Candidate(how, e) == [how |-> how, node |-> e]

RECURSIVE Visit(_, _)

Visit(h, e) ==
    IF e = Nil THEN <<>>
    ELSE <<Candidate("direct", e)>> \o
         (IF h[e].type \in {"testAsError", "asUnwrapError"}
          THEN <<Candidate("as", e)>>
          ELSE Visit(h, h[e].kind) \o Visit(h, h[e].cause))

Matches(h, c, T) ==
    IF c.how = "direct"
    THEN h[c.node].type = T \/ (T = "StackStringer" /\ h[c.node].type = "StackTrace")
    ELSE T = "testBaseError"

\* The first candidate of the sequence that matches T, as a Find result.
FirstMet(h, cs, T) ==
    LET hits == {i \in 1..Len(cs) : Matches(h, cs[i], T)}
    IN  IF hits = {} THEN [ok |-> FALSE, val |-> Nil]
        ELSE LET i == CHOOSE i \in hits : \A j \in hits : i <= j
             IN  [ok |-> TRUE,
                  val |-> IF cs[i].how = "direct" THEN cs[i].node ELSE FreshBase]

\* The nodes below e that match T directly.
DirectMatches(h, e, T) == {x \in Reach(h, e) : Satisfies(h[x].type, T)}

\* C5 as stated: of the nodes of a chain that match the target shape, Find
\* returns the shallowest.
C5_Original ==
    (last.op = "Find" /\ last.ok /\ last.val \in Ptrs(heap)) =>
        \A x \in DirectMatches(heap, last.err, last.T) :
            Dist(heap, last.err, last.val) <= Dist(heap, last.err, x)

\* C5 amended: of the nodes of a chain that match the target shape, Find
\* returns the one met first in its traversal (at each node the direct match,
\* then the As hook, then, at a node without an As hook, the multi-unwrap
\* list in order or the single unwrap); under a multi-unwrap node that one
\* may be deeper than another match.
C5_FirstMet ==
    last.op = "Find" =>
        [ok |-> last.ok, val |-> last.val]
            = FirstMet(heap, Visit(heap, last.err), last.T)

\* Find met a match below the kind before a shallower match below the cause,
\* and returned it.
C5_Witness ==
    /\ last.op = "Find"
    /\ last.ok
    /\ last.val \in Ptrs(heap)
    /\ heap[last.err].type = "Error"
    /\ last.val \in Reach(heap, heap[last.err].kind)
    /\ \E x \in DirectMatches(heap, heap[last.err].cause, last.T) :
           /\ x # last.val
           /\ Dist(heap, last.err, x) < Dist(heap, last.err, last.val)

\* ------------------------------------------------------------------- C6

\* C6: at a node with an As hook and an unwrap link, when the hook reports
\* non-match Find goes on to the unwrapped link and returns what is found
\* below it.
C6_AsFalseGoesOn ==
    (/\ last.op = "Find"
     /\ last.err # Nil
     /\ HasAs(heap[last.err].type)
     /\ HasUnwrapSingle(heap[last.err].type)
     /\ ~Satisfies(heap[last.err].type, last.T)
     /\ ~AsHook(heap[last.err].type, last.T)
     /\ Find(heap, UnwrapSingle(heap, last.err), last.T).ok) =>
        /\ last.ok
        /\ last.val = Find(heap, UnwrapSingle(heap, last.err), last.T).val

\* ------------------------------------------------------------------- C7

WrappedLeaf == CauseLeaf(heap, last.err)

IsWrappedLeaf ==
    /\ last.err # Nil
    /\ heap[WrappedLeaf].type \in LeafTypes

\* C8: after any sequence of WithMsg, WithKind, New(OptCause) and
\* AddStackTrace wraps around a leaf error L, errors.Is against L succeeds and
\* Find for L's shape succeeds; when nothing else in the chain matches that
\* shape, Find returns L itself.
C8_LeafStaysFindable ==
    /\ (last.op = "Find" /\ IsWrappedLeaf /\ last.T = heap[WrappedLeaf].type) =>
           /\ last.ok
           /\ DirectMatches(heap, last.err, last.T) = {WrappedLeaf}
                  => last.val = WrappedLeaf
    /\ (last.op = "Is" /\ IsWrappedLeaf /\ last.target = WrappedLeaf) => last.ok

\* Find for the shape of a leaf returned the leaf from below an Error with a
\* kind, an Error without one and the injected StackTrace.
C8_Witness ==
    /\ last.op = "Find"
    /\ IsWrappedLeaf
    /\ last.T = heap[WrappedLeaf].type
    /\ heap[last.err].type = "Error"
    /\ heap[last.err].kind # Nil
    /\ heap[heap[last.err].cause].type = "Error"
    /\ Cardinality(CauseChain(heap, last.err)) = 4
    /\ last.val = WrappedLeaf

\* ------------------------------------------------------------------- C9

\* C9: Find on the nil error reports not-found and returns the zero value,
\* for every target shape.
C9_NilNotFound ==
    (last.op = "Find" /\ last.err = Nil) => (~last.ok /\ last.val = Nil)

\* Find ran on the nil error, beside a heap that holds a StackTrace.
C9_Witness ==
    /\ last.op = "Find"
    /\ last.err = Nil
    /\ last.T = "StackTrace"
    /\ StackTracesIn(heap, Ptrs(heap)) # {}
    /\ ~last.ok

\* ------------------------------------------------------------------ C10

\* JSONValue ran on an Error built with a message and a kind and no cause.
IsMsgKindNoCause ==
    /\ last.op = "JSONValue"
    /\ last.err # Nil
    /\ heap[last.err].type = "Error"
    /\ heap[last.err].kind # Nil
    /\ heap[heap[last.err].cause].type = "StackTrace"
    /\ heap[heap[last.err].cause].cause = Nil

\* C10 as stated: the tree is {msg: m, kind: tree(X)}, with no cause key.
C10_Original ==
    IsMsgKindNoCause =>
        last.tree = [msg |-> heap[last.err].message,
                     kind |-> JSONValue(heap, heap[last.err].kind)]

\* C10 amended: the tree is {msg: m, kind: tree(X), cause: {msg: "Stack
\* trace", stack: the captured frames}}: the cause key is present and holds
\* the injected StackTrace, which itself has no cause key.
C10_TreeHoldsStackTrace ==
    IsMsgKindNoCause =>
        LET st == heap[heap[last.err].cause]
        IN  /\ st.n > 0
            /\ last.tree =
                   [msg |-> heap[last.err].message,
                    kind |-> JSONValue(heap, heap[last.err].kind),
                    cause |-> [msg |-> "Stack trace",
                               stack |-> [i \in 1..st.n |->
                                            [fn |-> st.pc[i].fn,
                                             file |-> st.pc[i].file,
                                             line |-> st.pc[i].line]]]]

\* New(OptMsg("msg A"), OptKind(X)) with a leaf error X was rendered.
C10_Witness ==
    /\ IsMsgKindNoCause
    /\ heap[last.err].message = "msg A"
    /\ heap[heap[last.err].kind].type = "errorString"
    /\ last.tree["kind"] = [str |-> "test errors err"]
    /\ "cause" \in DOMAIN last.tree

\* ------------------------------------------------------------------ C11

\* The delimiters of the display string.
KindOpen == "\n[[\n"

KindClose == "\n]]"

CauseSep == "\n--\n"

RECURSIVE Text(_, _)

\* text(node): the message; then, if the kind is present, the kind block
\* around text(kind); then, if the cause is present, the cause delimiter and
\* text(cause).  A StackTrace is its single-frame summary, an error of the
\* calling code its own text.
Text(h, e) ==
    IF h[e].type = "ErrorV2"
    THEN h[e].message
             \o (IF h[e].kind = Nil THEN ""
                 ELSE KindOpen \o Text(h, h[e].kind) \o KindClose)
             \o (IF h[e].cause = Nil THEN ""
                 ELSE CauseSep \o Text(h, h[e].cause))
    ELSE IF h[e].type = "StackTraceV2"
         THEN (IF h[e].n = 0 THEN ""
               ELSE h[e].pc[1].fn \o " " \o h[e].pc[1].file \o ":"
                        \o Itoa(h[e].pc[1].line))
    ELSE h[e].message

RECURSIVE TreeMsgs(_)

\* The messages of a structured tree in nesting order: the msg of a node,
\* then those of its kind, then those of its cause; a leaf string is its own
\* message.
TreeMsgs(t) ==
    IF t = JNull THEN <<>>
    ELSE IF "str" \in DOMAIN t THEN <<t["str"]>>
    ELSE <<t["msg"]>>
             \o (IF "kind" \in DOMAIN t THEN TreeMsgs(t["kind"]) ELSE <<>>)
             \o (IF "cause" \in DOMAIN t THEN TreeMsgs(t["cause"]) ELSE <<>>)

\* The messages of the flat display string: Error() carries no delimiter and
\* is one message.
FlatMsgs(h, err) == <<ErrorOf(h, err)>>

\* The message at the root of a structured tree.
RootMsg(t) == IF "str" \in DOMAIN t THEN t["str"] ELSE t["msg"]

C13_Immutable ==
    [][/\ Len(heap') >= Len(heap)
       /\ \A e \in Ptrs(heap) : heap'[e] = heap[e]]_vars

\* An Error that was already wrapped once has been wrapped again, with an
\* Error for a kind, and only the new node was added.
C13_Witness ==
    /\ last.op = "WithKind"
    /\ last.err # Nil
    /\ heap[last.err].type = "Error"
    /\ heap[heap[last.err].cause].type = "Error"
    /\ last.kind = heap[last.err].cause
    /\ Len(heap) = last.before + 1

\* ------------------------------------------------------------------ C14

\* The last step was a call that captured a trace.
IsCapture ==
    /\ last.op \in {"NewStackTrace", "AddStackTrace", "New", "WithMsg", "WithKind"}
    /\ \E e \in Ptrs(heap) : e > last.before /\ heap[e].type = "StackTrace"

\* The trace that call captured.
CapturedPtr ==
    CHOOSE e \in Ptrs(heap) : e > last.before /\ heap[e].type = "StackTrace"

Captured == heap[CapturedPtr]

Min(a, b) == IF a < b THEN a ELSE b

Max(a, b) == IF a > b THEN a ELSE b

\* C14: from a call stack of depth d, with s frames skipped, the trace records
\* min(128, max(0, d - s)) frames, PC() has that many entries, and the call
\* succeeds; a stack more than 128 frames deep beyond the skip gives exactly
\* 128.
C14_Truncation ==
    IsCapture =>
        /\ last.ok
        /\ Captured.n = Min(128, Max(0, last.depth - last.skip))
        /\ Len(PC(Captured)) = Captured.n
        /\ last.depth - last.skip > 128 => Len(PC(Captured)) = 128

\* NewStackTrace was called with a skip from a stack that is more than 128
\* frames deep beyond it.
C14_Witness ==
    /\ IsCapture
    /\ last.op = "NewStackTrace"
    /\ last.skip > 0
    /\ last.depth - last.skip > 128
    /\ Len(PC(Captured)) = 128

\* ------------------------------------------------------------------ C15

\* The inspected value is a StackTrace of no frames.
IsEmptyTrace ==
    /\ last.err # Nil
    /\ heap[last.err].type = "StackTrace"
    /\ heap[last.err].n = 0

\* C15: when the capture skips at least as many frames as the stack holds,
\* the call still succeeds and gives a StackTrace of zero frames; of such a
\* trace StackString() is the empty string, Error() is "Stack trace (empty)",
\* and the structured form has the msg and no stack.
C15_EmptyTrace ==
    /\ (IsCapture /\ last.skip >= last.depth) =>
           /\ last.ok
           /\ last.val # Nil
           /\ Captured.n = 0
           /\ PC(Captured) = <<>>
           /\ StackString(heap, CapturedPtr) = ""
           /\ ErrorOf(heap, CapturedPtr) = "Stack trace (empty)"
           /\ "stack" \notin DOMAIN JSONValue(heap, CapturedPtr)
    /\ (last.op = "StackString" /\ IsEmptyTrace) => last.tree = JStr("")
    /\ (last.op = "Error" /\ IsEmptyTrace) => last.tree = JStr("Stack trace (empty)")
    /\ (last.op = "JSONValue" /\ IsEmptyTrace) =>
           /\ last.tree["msg"] = "Stack trace"
           /\ "stack" \notin DOMAIN last.tree

\* Error() ran on a trace that NewStackTrace captured with a skip as large as
\* the stack was deep.
C15_Witness ==
    /\ last.op = "Error"
    /\ IsEmptyTrace
    /\ last.tree = JStr("Stack trace (empty)")

\* ------------------------------------------------------------------ C16

\* C16: the first frame a StackTrace records is the caller of the entry point
\* used when nothing more is skipped: of NewStackTrace(err, 0), of
\* AddStackTrace(err, 0), of New(...), and of WithMsg and WithKind; a skip of
\* k, and for New the sum of its OptSkip values, moves it k callers further
\* out.  No frame of the library is ever recorded.
C16_SkipCompensation ==
    (IsCapture /\ Captured.n > 0) =>
        /\ Captured.pc[1] = Frame("caller", "caller.go", 1 + last.skip)
        /\ last.skip = 0 => Captured.pc[1] = CallerStack(last.depth)[1]
        /\ \A i \in 1..Captured.n : Captured.pc[i].file # "kerrors.go"

\* New(OptMsg(m), OptSkip(1), OptSkip(1)) captured a trace that starts two
\* callers out.
C16_Witness ==
    /\ IsCapture
    /\ last.op = "New"
    /\ last.skip = 2 * MaxSkip
    /\ Captured.n > 0
    /\ Captured.pc[1].line = 1 + 2 * MaxSkip

\* ------------------------------------------------------------------ C17

\* For the node New has just built: the cause is never absent, and Unwrap
\* gives [kind, cause] when a kind was given and [cause] otherwise, with no
\* nil entry.
NewUnwrapsKindThenCause ==
    last.op = "New" =>
        LET e == heap[last.val]
            errs == Unwrap(heap, last.val)
        IN  /\ e.cause # Nil
            /\ e.kind = last.kind
            /\ errs = IF last.kind # Nil THEN <<last.kind, e.cause>> ELSE <<e.cause>>
            /\ \A i \in 1..Len(errs) : errs[i] # Nil

\* Find ran on an Error whose kind and whose cause both hold a value of the
\* target shape.
FindWithMatchInBoth ==
    /\ last.op = "Find"
    /\ last.err # Nil
    /\ heap[last.err].type = "Error"
    /\ DirectMatches(heap, heap[last.err].kind, last.T) # {}
    /\ DirectMatches(heap, heap[last.err].cause, last.T) # {}

\* C17 as stated: ... when both the kind and the cause contain a value of the
\* target shape, Find returns the one under the kind.
C17_Original ==
    /\ NewUnwrapsKindThenCause
    /\ FindWithMatchInBoth =>
           (last.ok /\ last.val \in Reach(heap, heap[last.err].kind))

\* C17 amended: ... Find on the node returns the node itself when the node
\* satisfies the target shape (Find[*Error]); otherwise it walks the list in
\* order and returns what it finds under the kind, and goes on to the cause
\* only when it finds nothing under the kind (no kind, no match, or a match
\* hidden below a node with an As hook).
C17_KindBeforeCause ==
    /\ NewUnwrapsKindThenCause
    /\ (last.op = "Find" /\ last.err # Nil /\ heap[last.err].type = "Error") =>
           LET inKind == Find(heap, heap[last.err].kind, last.T)
               inCause == Find(heap, heap[last.err].cause, last.T)
               r == [ok |-> last.ok, val |-> last.val]
           IN  IF Satisfies("Error", last.T) THEN r = Found(last.err)
               ELSE IF inKind.ok THEN r = inKind
               ELSE r = inCause
    /\ (/\ FindWithMatchInBoth
        /\ ~Satisfies("Error", last.T)
        /\ \A x \in Reach(heap, heap[last.err].kind) : ~HasAs(heap[x].type)) =>
           (last.ok /\ last.val \in Reach(heap, heap[last.err].kind))

\* Find for the shape of a leaf ran on an Error whose kind is such a leaf and
\* whose cause chain ends in another, and returned the kind.
C17_Witness ==
    /\ FindWithMatchInBoth
    /\ last.T \in LeafTypes
    /\ last.ok
    /\ last.val = heap[last.err].kind
    /\ last.val \notin Reach(heap, heap[last.err].cause)

\* ------------------------------------------------------------------ C18

RECURSIVE Mirror(_, _, _)

\* The tree that mirrors a chain: nothing for the absent error; for an Error
\* its msg, the tree of the kind if there is a kind, the tree of the cause if
\* there is a cause; for a StackTrace the msg "Stack trace", its frames, and
\* the tree of the cause if there is one; for an error of the calling code
\* its text, or, when `wrappers` says so and the error has an Unwrap() error,
\* its text as msg beside the tree of what it unwraps.
Mirror(h, e, wrappers) ==
    IF e = Nil THEN JNull
    ELSE LET n == h[e]
             kind == Mirror(h, n.kind, wrappers)
             cause == Mirror(h, n.cause, wrappers)
             stack == [i \in 1..n.n |-> [fn |-> n.pc[i].fn, file |-> n.pc[i].file,
                                        line |-> n.pc[i].line]]
         IN  CASE n.type = "Error" ->
                    (IF n.kind = Nil /\ n.cause = Nil THEN [msg |-> n.message]
                     ELSE IF n.kind = Nil THEN [msg |-> n.message, cause |-> cause]
                     ELSE IF n.cause = Nil THEN [msg |-> n.message, kind |-> kind]
                     ELSE [msg |-> n.message, kind |-> kind, cause |-> cause])
               [] n.type = "StackTrace" ->
                    (IF n.cause = Nil THEN [msg |-> "Stack trace", stack |-> stack]
                     ELSE [msg |-> "Stack trace", stack |-> stack, cause |-> cause])
               [] OTHER ->
                    (IF wrappers /\ n.type \in {"testSingleUnwrapError", "asUnwrapError"}
                     THEN [msg |-> n.message, cause |-> cause]
                     ELSE [str |-> n.message])

\* C18 as stated: the structured tree mirrors the chain, and every error that
\* is not the library's appears as a leaf string equal to its flat message.
C18_Original ==
    last.op = "JSONValue" => last.tree = Mirror(heap, last.err, FALSE)

\* C18 amended: ... an error that is not the library's appears as a leaf
\* string equal to its flat message when it has no Unwrap method; one with an
\* Unwrap() error appears as {msg: its flat message, cause: tree of what it
\* unwraps}, the cause key being there (null) even when it unwraps nothing.
C18_TreeMirrorsChain ==
    last.op = "JSONValue" =>
        /\ last.tree = Mirror(heap, last.err, TRUE)
        /\ (last.err # Nil /\ heap[last.err].type \in LeafTypes \cup {"testAsError"})
               => last.tree = JStr(ErrorOf(heap, last.err))

\* JSONValue ran on an Error whose cause chain holds, below the StackTrace, a
\* testSingleUnwrapError around a leaf error.
C18_Witness ==
    /\ last.op = "JSONValue"
    /\ last.err # Nil
    /\ heap[last.err].type = "Error"
    /\ heap[heap[last.err].cause].type = "StackTrace"
    /\ heap[heap[last.err].cause].cause # Nil
    /\ heap[heap[heap[last.err].cause].cause].type = "testSingleUnwrapError"
    /\ last.tree["cause"]["cause"] =
           [msg |-> "Test single unwrap error", cause |-> [str |-> "test errors err"]]

====
